---- MODULE Spec2Model ----
(***************************************************************************)
(* Vanilla option instruments of quantsbin.derivativepricing.instruments:  *)
(* the option contract (VanillaOption and its four adapters EqOption,      *)
(* FutOption, FXOption, ComOption), its payoff law, and the binding of a   *)
(* pricing model and market data through Instrument.engine.                *)
(*                                                                         *)
(* Python values are tagged records: None, Num(n), Str(s).  A date string  *)
(* is a Str whose payload is the sequence of its characters, so that       *)
(* datetime.strptime can be modelled character by character.  A call       *)
(* either returns a value or raises an exception: Return(v) / Raise(e).    *)
(***************************************************************************)
EXTENDS Integers, Sequences, FiniteSets, TLC

VARIABLES
    contract,       \* the option contract object, NoContract before construction
    DEFAULT_MODEL,  \* catalog: undl -> derivative type -> expiry type -> model
    OBJECT_MODEL,   \* catalog: undl -> expiry type -> permitted models
    call,           \* the last call made by the caller, with its arguments
    outcome,        \* what that call returned or raised
    calls           \* how many queries the caller has made on the contract

vars == <<contract, DEFAULT_MODEL, OBJECT_MODEL, call, outcome, calls>>

-----------------------------------------------------------------------------
(* Python values and call results *)

None == [t |-> "None"]
Num(n) == [t |-> "num", v |-> n]
Str(s) == [t |-> "str", v |-> s]

IsNum(x) == x.t = "num"
IsStr(x) == x.t = "str"

\* Python truthiness of None, numbers and strings
Truthy(x) ==
    CASE x.t = "None" -> FALSE
      [] x.t = "num" -> x.v # 0
      [] x.t = "str" -> x.v # ""

\* Python's `a or b`
Or(a, b) == IF Truthy(a) THEN a ELSE b

Return(v) == [ok |-> TRUE, value |-> v]
Raise(e) == [ok |-> FALSE, exc |-> e]

-----------------------------------------------------------------------------
(* Bounds of the model *)

MaxStrike == 2
MaxSpot == 3
MaxCalls == 2

-----------------------------------------------------------------------------
(* Enum values of namesnmapper, as the docstrings of the adapters give them *)

CALL == "Call"
PUT == "Put"
EUROPEAN == "European"
AMERICAN == "American"
VANILLA_OPTION == "Vanilla Option"
STOCK == "Stock"
FUTURES == "Futures"
FX == "FX"
COMMODITY == "Commodity"

-----------------------------------------------------------------------------
(* datetime.strptime(expiry_date, '%Y%m%d').  The format compiles to the    *)
(* regular expression                                                      *)
(*   (\d\d\d\d)(1[0-2]|0[1-9]|[1-9])(3[0-1]|[1-2]\d|0[1-9]|[1-9]| [1-9])   *)
(* matched at the start of the string with ordered alternatives; the whole *)
(* string must be consumed and the fields must name a calendar date.       *)

Digits == {"0", "1", "2", "3", "4", "5", "6", "7", "8", "9"}

DigitVal(c) ==
    CASE c = "0" -> 0 [] c = "1" -> 1 [] c = "2" -> 2 [] c = "3" -> 3
      [] c = "4" -> 4 [] c = "5" -> 5 [] c = "6" -> 6 [] c = "7" -> 7
      [] c = "8" -> 8 [] c = "9" -> 9

\* s[i] is a character in set cs
At(s, i, cs) == i <= Len(s) /\ s[i] \in cs

\* length matched by the k-th alternative of %m at position i, 0 if none
MonthAlt(s, i, k) ==
    CASE k = 1 -> IF At(s, i, {"1"}) /\ At(s, i + 1, {"0", "1", "2"}) THEN 2 ELSE 0
      [] k = 2 -> IF At(s, i, {"0"}) /\ At(s, i + 1, Digits \ {"0"}) THEN 2 ELSE 0
      [] k = 3 -> IF At(s, i, Digits \ {"0"}) THEN 1 ELSE 0

\* length matched by the k-th alternative of %d at position i, 0 if none
DayAlt(s, i, k) ==
    CASE k = 1 -> IF At(s, i, {"3"}) /\ At(s, i + 1, {"0", "1"}) THEN 2 ELSE 0
      [] k = 2 -> IF At(s, i, {"1", "2"}) /\ At(s, i + 1, Digits) THEN 2 ELSE 0
      [] k = 3 -> IF At(s, i, {"0"}) /\ At(s, i + 1, Digits \ {"0"}) THEN 2 ELSE 0
      [] k = 4 -> IF At(s, i, Digits \ {"0"}) THEN 1 ELSE 0
      [] k = 5 -> IF At(s, i, {" "}) /\ At(s, i + 1, Digits \ {"0"}) THEN 2 ELSE 0

\* the (month alternative, day alternative) pairs under which the regex matches
RegexMatches(s) ==
    IF \A i \in 1..4 : At(s, i, Digits)
    THEN {p \in (1..3) \X (1..5) :
            /\ MonthAlt(s, 5, p[1]) > 0
            /\ DayAlt(s, 5 + MonthAlt(s, 5, p[1]), p[2]) > 0}
    ELSE {}

\* the match the backtracking engine finds: the first in alternative order
FirstMatch(s) ==
    CHOOSE p \in RegexMatches(s) :
        \A q \in RegexMatches(s) :
            p[1] < q[1] \/ (p[1] = q[1] /\ p[2] <= q[2])

\* the number a run of characters s[i..i+n-1] denotes (a space counts as 0)
RECURSIVE ToInt(_, _, _)
ToInt(s, i, n) ==
    IF n = 0 THEN 0
    ELSE 10 * ToInt(s, i, n - 1)
         + (IF s[i + n - 1] \in Digits THEN DigitVal(s[i + n - 1]) ELSE 0)

IsLeap(y) == (y % 4 = 0) /\ ((y % 100 # 0) \/ (y % 400 = 0))

DaysInMonth(y, m) ==
    CASE m \in {1, 3, 5, 7, 8, 10, 12} -> 31
      [] m \in {4, 6, 9, 11} -> 30
      [] m = 2 -> IF IsLeap(y) THEN 29 ELSE 28

strptime(data_string) ==
    IF ~IsStr(data_string) THEN Raise("TypeError")
    ELSE LET s == data_string.v IN
         IF RegexMatches(s) = {} THEN Raise("ValueError")
         ELSE LET p == FirstMatch(s)
                  ml == MonthAlt(s, 5, p[1])
                  dl == DayAlt(s, 5 + ml, p[2])
                  y == ToInt(s, 1, 4)
                  m == ToInt(s, 5, ml)
                  d == ToInt(s, 5 + ml, dl)
              IN IF 4 + ml + dl # Len(s) THEN Raise("ValueError")
                 ELSE IF y < 1 \/ d > DaysInMonth(y, m) THEN Raise("ValueError")
                 ELSE Return([year |-> y, month |-> m, day |-> d])

-----------------------------------------------------------------------------
(* The model catalog of namesnmapper: DEFAULT_MODEL and OBJECT_MODEL.  A    *)
(* subscript with a key the mapping does not hold raises the catalog's     *)
(* "no entry" error.                                                       *)

UdlTypes == {STOCK, FUTURES, FX, COMMODITY}

DefaultModelCatalog ==
    [u \in UdlTypes |->
        [d \in {VANILLA_OPTION} |->
            (EUROPEAN :> "BSM" @@ AMERICAN :> "Binomial")]]

ObjectModelCatalog ==
    [u \in UdlTypes |->
        (EUROPEAN :> <<"BSM", "MonteCarlo", "Binomial">>
         @@ AMERICAN :> <<"MonteCarlo", "Binomial">>)]

\* key k is a key of mapping d
HasKey(d, k) == IsStr(k) /\ k.v \in DOMAIN d

\* DEFAULT_MODEL[undl][derivative_type][expiry_type]
default_model_for(undl, derivative_type, expiry_type) ==
    IF /\ HasKey(DEFAULT_MODEL, undl)
       /\ HasKey(DEFAULT_MODEL[undl.v], derivative_type)
       /\ HasKey(DEFAULT_MODEL[undl.v][derivative_type.v], expiry_type)
    THEN Return(Str(DEFAULT_MODEL[undl.v][derivative_type.v][expiry_type.v]))
    ELSE Raise("NoDefaultModelError")

\* OBJECT_MODEL[undl][expiry_type]
permitted_models_for(undl, expiry_type) ==
    IF /\ HasKey(OBJECT_MODEL, undl)
       /\ HasKey(OBJECT_MODEL[undl.v], expiry_type)
    THEN Return(OBJECT_MODEL[undl.v][expiry_type.v])
    ELSE Raise("NoDefaultModelError")

\* PricingEngine(instrument, model, **kwargs): the engine bound to them
PricingEngine(instrument, kwargs) ==
    [instrument |-> instrument,
     model |-> kwargs["model"],
     params |-> [k \in DOMAIN kwargs \ {"model"} |-> kwargs[k]]]

-----------------------------------------------------------------------------
(* class Instrument *)

\* Instrument.engine(self, **kwargs).  self: the contract after the call;
\* res: what the call returns or raises; reads: the catalogs it consulted.
Instrument_engine_AnyExpiry(self, kwargs) ==
    IF ~Truthy(kwargs["model"])
    THEN LET m == default_model_for(self.undl, self.derivative_type, Str(EUROPEAN))
         IN [self |-> self,
             res |-> IF m.ok
                     THEN Return(PricingEngine(self, [kwargs EXCEPT !["model"] = m.value]))
                     ELSE m,
             reads |-> {"DEFAULT_MODEL"}]
    ELSE [self |-> self, res |-> Return(PricingEngine(self, kwargs)), reads |-> {}]

Instrument_engine_Fallback(self, kwargs) ==
    IF ~Truthy(kwargs["model"])
    THEN LET m == default_model_for(self.undl, self.derivative_type, self.expiry_type)
         IN [self |-> self,
             res |-> IF m.ok
                     THEN Return(PricingEngine(self, [kwargs EXCEPT !["model"] = m.value]))
                     ELSE Return(PricingEngine(self, [kwargs EXCEPT !["model"] = Str("BSM")])),
             reads |-> {"DEFAULT_MODEL"}]
    ELSE [self |-> self, res |-> Return(PricingEngine(self, kwargs)), reads |-> {}]

Instrument_engine_AlwaysDefault(self, kwargs) ==
    LET m == default_model_for(self.undl, self.derivative_type, self.expiry_type)
    IN [self |-> self,
        res |-> IF ~m.ok THEN m
                ELSE IF Truthy(kwargs["model"]) THEN Return(PricingEngine(self, kwargs))
                ELSE Return(PricingEngine(self, [kwargs EXCEPT !["model"] = m.value])),
        reads |-> {"DEFAULT_MODEL"}]

Instrument_engine_Caching(self, kwargs) ==
    IF ~Truthy(kwargs["model"])
    THEN LET m == default_model_for(self.undl, self.derivative_type, self.expiry_type)
         IN [self |-> IF m.ok THEN [model |-> m.value] @@ self ELSE self,
             res |-> IF m.ok
                     THEN Return(PricingEngine(self, [kwargs EXCEPT !["model"] = m.value]))
                     ELSE m,
             reads |-> {"DEFAULT_MODEL"}]
    ELSE [self |-> self, res |-> Return(PricingEngine(self, kwargs)), reads |-> {}]

Instrument_engine(self, kwargs) ==
    IF ~Truthy(kwargs["model"])
    THEN LET m == default_model_for(self.undl, self.derivative_type, self.expiry_type)
         IN [self |-> self,
             res |-> IF m.ok
                     THEN Return(PricingEngine(self, [kwargs EXCEPT !["model"] = m.value]))
                     ELSE m,
             reads |-> {"DEFAULT_MODEL"}]
    ELSE [self |-> self, res |-> Return(PricingEngine(self, kwargs)), reads |-> {}]

\* ", ".join(models)
RECURSIVE join(_)
join(models) ==
    IF Len(models) = 0 THEN ""
    ELSE IF Len(models) = 1 THEN models[1]
    ELSE models[1] \o ", " \o join(Tail(models))

\* Instrument.list_models(self)
list_models(self) ==
    LET m == permitted_models_for(self.undl, self.expiry_type)
    IN IF m.ok THEN Return(Str(join(m.value))) ELSE m

-----------------------------------------------------------------------------
(* class VanillaOption *)

VanillaOption_init(option_type, expiry_type, strike, expiry_date, derivative_type) ==
    LET parsed == strptime(expiry_date)
    IN IF ~parsed.ok THEN parsed
       ELSE Return([option_type |-> Or(option_type, Str(CALL)),
                    expiry_type |-> Or(expiry_type, Str(EUROPEAN)),
                    strike |-> strike,
                    expiry_date |-> parsed.value,
                    derivative_type |-> Or(derivative_type, Str(VANILLA_OPTION))])

option_type_flag_AlwaysCall(self) == 1

option_type_flag(self) ==
    IF self.option_type = Str(CALL) THEN 1 ELSE -1

\* max(a, b) of Python on numbers
max(a, b) == IF b > a THEN b ELSE a

\* VanillaOption.payoff(self, spot0)
payoff(self, spot0) ==
    IF ~IsNum(spot0) \/ ~IsNum(self.strike) THEN Raise("TypeError")
    ELSE Return(Num(max(option_type_flag(self) * (spot0.v - self.strike.v), 0)))

-----------------------------------------------------------------------------
(* The adapters.  Each constructor runs VanillaOption.__init__ and then    *)
(* sets undl; each engine hands its own keywords, then **kwargs, to        *)
(* Instrument.engine.                                                      *)

\* the object an adapter's __init__ leaves: the base fields and undl
Adapter_init(cls, undl, base) ==
    IF base.ok
    THEN Return([cls |-> cls,
                 option_type |-> base.value.option_type,
                 expiry_type |-> base.value.expiry_type,
                 strike |-> base.value.strike,
                 expiry_date |-> base.value.expiry_date,
                 derivative_type |-> base.value.derivative_type,
                 undl |-> Str(undl)])
    ELSE base

EqOption_init(option_type, expiry_type, strike, expiry_date, derivative_type) ==
    Adapter_init("EqOption", STOCK,
        VanillaOption_init(option_type, expiry_type, strike, expiry_date, derivative_type))

FutOption_init(option_type, expiry_type, strike, expiry_date, derivative_type) ==
    Adapter_init("FutOption", FUTURES,
        VanillaOption_init(option_type, expiry_type, strike, expiry_date, derivative_type))

FXOption_init(option_type, expiry_type, strike, expiry_date, derivative_type) ==
    Adapter_init("FXOption", FX,
        VanillaOption_init(option_type, expiry_type, strike, expiry_date, derivative_type))

ComOption_init(option_type, expiry_type, strike, expiry_date, derivative_type) ==
    Adapter_init("ComOption", COMMODITY,
        VanillaOption_init(option_type, expiry_type, strike, expiry_date, derivative_type))

\* super().engine(k1=v1, ..., **kwargs): a keyword given twice is a TypeError
\* raised before Instrument.engine runs
super_engine_Override(self, explicit, kwargs) ==
    Instrument_engine(self, kwargs @@ explicit)

super_engine(self, explicit, kwargs) ==
    IF DOMAIN explicit \cap DOMAIN kwargs # {}
    THEN [self |-> self, res |-> Raise("TypeError"), reads |-> {}]
    ELSE Instrument_engine(self, explicit @@ kwargs)

EqOption_engine(self, model, spot0, rf_rate, yield_div, div_list, volatility, pricing_date, kwargs) ==
    super_engine(self,
        [model |-> model, spot0 |-> spot0, rf_rate |-> rf_rate, cnv_yield |-> yield_div,
         pv_cnv |-> Num(0), div_list |-> div_list, volatility |-> volatility,
         pricing_date |-> pricing_date],
        kwargs)

FutOption_engine(self, model, fwd0, rf_rate, volatility, pricing_date, kwargs) ==
    super_engine(self,
        [model |-> model, spot0 |-> fwd0, rf_rate |-> rf_rate, cnv_yield |-> rf_rate,
         volatility |-> volatility, pricing_date |-> pricing_date],
        kwargs)

FXOption_engine_LocalCarry(self, model, spot0, rf_rate_local, rf_rate_foreign, volatility, pricing_date, kwargs) ==
    super_engine(self,
        [model |-> model, spot0 |-> spot0, rf_rate |-> rf_rate_local,
         cnv_yield |-> rf_rate_local, volatility |-> volatility,
         pricing_date |-> pricing_date],
        kwargs)

FXOption_engine(self, model, spot0, rf_rate_local, rf_rate_foreign, volatility, pricing_date, kwargs) ==
    super_engine(self,
        [model |-> model, spot0 |-> spot0, rf_rate |-> rf_rate_local,
         cnv_yield |-> rf_rate_foreign, volatility |-> volatility,
         pricing_date |-> pricing_date],
        kwargs)

ComOption_engine(self, model, spot0, rf_rate, cnv_yield, cost_yield, volatility, pricing_date, kwargs) ==
    super_engine(self,
        [model |-> model, spot0 |-> spot0, rf_rate |-> rf_rate, cnv_yield |-> cnv_yield,
         cost_yield |-> cost_yield, volatility |-> volatility,
         pricing_date |-> pricing_date],
        kwargs)

-----------------------------------------------------------------------------
(* What callers pass *)

OptionTypes == {None, Str(""), Str(CALL), Str(PUT), Str("call")}
ExpiryTypes == {None, Str(EUROPEAN), Str(AMERICAN), Str("Bermudan")}
DerivativeTypes == {None, Str(VANILLA_OPTION), Str("Exotic")}
Strikes == {None} \cup {Num(k) : k \in 1..MaxStrike}
Spots == {None, Str("abc")} \cup {Num(k) : k \in (-1)..MaxSpot}

ExpiryDates ==
    {None,
     Str(<<"2", "0", "1", "8", "1", "2", "1", "0">>),
     Str(<<"2", "0", "1", "8", "-", "1", "2", "-", "1", "0">>),
     Str(<<"2", "0", "1", "8", "1", "2", "3", "2">>),
     Str(<<"2", "0", "1", "8", "1", "2", "1">>),
     Str(<<"2", "0", "1", "8", "1", "2">>),
     Str(<<"2", "0", "1", "8", "0", "2", "3", "0">>)}

Models == {None, Str(""), Str("MonteCarlo"), Str("Bogus")}
Prices == {None, Num(110)}
Rates == {Num(0), Num(5)}
Volatilities == {Num(10)}
PricingDates == {None}
DivLists == {None}

NoExtra == [k \in {} |-> None]
Knob == [no_of_steps |-> Num(100)]
EqExtras == {NoExtra, Knob, [cnv_yield |-> Num(1)], [pv_cnv |-> Num(1)]}
FutExtras == {NoExtra, Knob, [cnv_yield |-> Num(1)], [spot0 |-> Num(1)]}
FXExtras == {NoExtra, Knob, [cnv_yield |-> Num(1)], [rf_rate |-> Num(1)]}
ComExtras == {NoExtra, Knob}

-----------------------------------------------------------------------------
(* The state machine: one contract object, constructed once, then queried *)

NoContract == [cls |-> "none"]
NoCall == [op |-> "none"]
Idle == [op |-> "idle"]
NoOutcome == [res |-> Return(None), reads |-> {}]

\* the caller holds a contract and is between two calls
Ready == contract # NoContract /\ call.op \in {"init", "idle"} /\ calls < MaxCalls

Init ==
    /\ contract = NoContract
    /\ DEFAULT_MODEL = DefaultModelCatalog
    /\ OBJECT_MODEL = ObjectModelCatalog
    /\ call = NoCall
    /\ outcome = NoOutcome
    /\ calls = 0

\* the caller runs an adapter's constructor with the given arguments
Construct(cls, made, args) ==
    /\ call' = [op |-> "init", cls |-> cls] @@ args
    /\ outcome' = [res |-> IF made.ok THEN Return(None) ELSE made, reads |-> {}]
    /\ contract' = IF made.ok THEN made.value ELSE NoContract
    /\ UNCHANGED <<DEFAULT_MODEL, OBJECT_MODEL, calls>>

InitArgs(ot, et, k, d, dt) ==
    [option_type |-> ot, expiry_type |-> et, strike |-> k, expiry_date |-> d,
     derivative_type |-> dt]

NewEqOption ==
    /\ call = NoCall
    /\ \E ot \in OptionTypes, et \in ExpiryTypes, k \in Strikes, d \in ExpiryDates,
          dt \in DerivativeTypes :
        Construct("EqOption", EqOption_init(ot, et, k, d, dt), InitArgs(ot, et, k, d, dt))

NewFutOption ==
    /\ call = NoCall
    /\ \E ot \in OptionTypes, et \in ExpiryTypes, k \in Strikes, d \in ExpiryDates,
          dt \in DerivativeTypes :
        Construct("FutOption", FutOption_init(ot, et, k, d, dt), InitArgs(ot, et, k, d, dt))

NewFXOption ==
    /\ call = NoCall
    /\ \E ot \in OptionTypes, et \in ExpiryTypes, k \in Strikes, d \in ExpiryDates,
          dt \in DerivativeTypes :
        Construct("FXOption", FXOption_init(ot, et, k, d, dt), InitArgs(ot, et, k, d, dt))

NewComOption ==
    /\ call = NoCall
    /\ \E ot \in OptionTypes, et \in ExpiryTypes, k \in Strikes, d \in ExpiryDates,
          dt \in DerivativeTypes :
        Construct("ComOption", ComOption_init(ot, et, k, d, dt), InitArgs(ot, et, k, d, dt))

Payoff ==
    /\ Ready
    /\ \E spot0 \in Spots :
        /\ call' = [op |-> "payoff", spot0 |-> spot0]
        /\ outcome' = [res |-> payoff(contract, spot0), reads |-> {}]
    /\ calls' = calls + 1
    /\ UNCHANGED <<contract, DEFAULT_MODEL, OBJECT_MODEL>>

ListModels ==
    /\ Ready
    /\ call' = [op |-> "list_models"]
    /\ outcome' = [res |-> list_models(contract), reads |-> {"OBJECT_MODEL"}]
    /\ calls' = calls + 1
    /\ UNCHANGED <<contract, DEFAULT_MODEL, OBJECT_MODEL>>

\* an engine call: r is what the adapter's engine produced
Engine(r, args) ==
    /\ call' = [op |-> "engine"] @@ args
    /\ outcome' = [res |-> r.res, reads |-> r.reads]
    /\ contract' = r.self
    /\ calls' = calls + 1
    /\ UNCHANGED <<DEFAULT_MODEL, OBJECT_MODEL>>

EqEngine ==
    /\ Ready
    /\ contract.cls = "EqOption"
    /\ \E model \in Models, spot0 \in Prices, rf_rate \in Rates, yield_div \in Rates,
          div_list \in DivLists, volatility \in Volatilities,
          pricing_date \in PricingDates, kwargs \in EqExtras :
        Engine(EqOption_engine(contract, model, spot0, rf_rate, yield_div, div_list,
                               volatility, pricing_date, kwargs),
               [model |-> model, spot0 |-> spot0, rf_rate |-> rf_rate,
                yield_div |-> yield_div, div_list |-> div_list,
                volatility |-> volatility, pricing_date |-> pricing_date,
                kwargs |-> kwargs])

FutEngine ==
    /\ Ready
    /\ contract.cls = "FutOption"
    /\ \E model \in Models, fwd0 \in Prices, rf_rate \in Rates,
          volatility \in Volatilities, pricing_date \in PricingDates,
          kwargs \in FutExtras :
        Engine(FutOption_engine(contract, model, fwd0, rf_rate, volatility,
                                pricing_date, kwargs),
               [model |-> model, fwd0 |-> fwd0, rf_rate |-> rf_rate,
                volatility |-> volatility, pricing_date |-> pricing_date,
                kwargs |-> kwargs])

FXEngine ==
    /\ Ready
    /\ contract.cls = "FXOption"
    /\ \E model \in Models, spot0 \in Prices, rf_rate_local \in Rates,
          rf_rate_foreign \in Rates, volatility \in Volatilities,
          pricing_date \in PricingDates, kwargs \in FXExtras :
        Engine(FXOption_engine(contract, model, spot0, rf_rate_local, rf_rate_foreign,
                               volatility, pricing_date, kwargs),
               [model |-> model, spot0 |-> spot0, rf_rate_local |-> rf_rate_local,
                rf_rate_foreign |-> rf_rate_foreign, volatility |-> volatility,
                pricing_date |-> pricing_date, kwargs |-> kwargs])

ComEngine ==
    /\ Ready
    /\ contract.cls = "ComOption"
    /\ \E model \in Models, spot0 \in Prices, rf_rate \in Rates, cnv_yield \in Rates,
          cost_yield \in Rates, volatility \in Volatilities,
          pricing_date \in PricingDates, kwargs \in ComExtras :
        Engine(ComOption_engine(contract, model, spot0, rf_rate, cnv_yield, cost_yield,
                                volatility, pricing_date, kwargs),
               [model |-> model, spot0 |-> spot0, rf_rate |-> rf_rate,
                cnv_yield |-> cnv_yield, cost_yield |-> cost_yield,
                volatility |-> volatility, pricing_date |-> pricing_date,
                kwargs |-> kwargs])

\* the caller takes the result of a query; the next call can be made
TakeResult ==
    /\ call.op \in {"payoff", "list_models", "engine"}
    /\ call' = Idle
    /\ outcome' = NoOutcome
    /\ UNCHANGED <<contract, DEFAULT_MODEL, OBJECT_MODEL, calls>>

Next ==
    \/ NewEqOption
    \/ NewFutOption
    \/ NewFXOption
    \/ NewComOption
    \/ Payoff
    \/ ListModels
    \/ EqEngine
    \/ FutEngine
    \/ FXEngine
    \/ ComEngine
    \/ TakeResult

Spec == Init /\ [][Next]_vars

-----------------------------------------------------------------------------
(* Vocabulary of the properties *)

After(op) == call.op = op
Returned == outcome.res.ok
Raised(kinds) == ~outcome.res.ok /\ outcome.res.exc \in kinds

\* The code defines no error classes of its own.  Each error kind of the
\* specification is read as widely as the code allows: the catalog's error on
\* a missing key, the errors strptime raises, and the errors of arithmetic on
\* a value that is no number.
NoDefaultModelErrors == {"NoDefaultModelError", "KeyError"}
MalformedDateErrors == {"MalformedDateError", "ValueError", "TypeError"}
InvalidMarketValueErrors == {"InvalidMarketValueError", "ValueError", "TypeError"}

VanillaOptionTypes == {Str(CALL), Str(PUT)}
ExpiryTypeMembers == {Str(EUROPEAN), Str(AMERICAN)}

MaxOf(a, b) == IF a >= b THEN a ELSE b

\* the class tag of each adapter
TagOf(cls) ==
    CASE cls = "EqOption" -> STOCK
      [] cls = "FutOption" -> FUTURES
      [] cls = "FXOption" -> FX
      [] cls = "ComOption" -> COMMODITY

\* the keywords each adapter itself passes on to Instrument.engine
PassedKeywords(cls) ==
    {"model", "spot0", "rf_rate", "cnv_yield", "volatility", "pricing_date"}
    \cup (CASE cls = "EqOption" -> {"pv_cnv", "div_list"}
            [] cls = "ComOption" -> {"cost_yield"}
            [] OTHER -> {})

\* the caller repeats none of the keywords the adapter passes itself
NoRepeatedKeyword == DOMAIN call.kwargs \cap PassedKeywords(contract.cls) = {}

\* the default-model catalog has an entry for the contract's triple, the
\* underlying class being the adapter's own tag
HasDefault ==
    /\ TagOf(contract.cls) \in DOMAIN DEFAULT_MODEL
    /\ IsStr(contract.derivative_type)
    /\ contract.derivative_type.v \in DOMAIN DEFAULT_MODEL[TagOf(contract.cls)]
    /\ IsStr(contract.expiry_type)
    /\ contract.expiry_type.v
         \in DOMAIN DEFAULT_MODEL[TagOf(contract.cls)][contract.derivative_type.v]

TheDefault ==
    Str(DEFAULT_MODEL[TagOf(contract.cls)][contract.derivative_type.v][contract.expiry_type.v])

-----------------------------------------------------------------------------
\* C1: for every strike K > 0 and spot S >= 0, payoff(S) returns max(S - K, 0)
\* on a Call and max(K - S, 0) on a Put; the result is never negative, and is
\* exactly 0 for both Call and Put when S = K.
C1_PayoffLaw ==
    (/\ After("payoff")
     /\ IsNum(call.spot0) /\ call.spot0.v >= 0
     /\ IsNum(contract.strike) /\ contract.strike.v > 0)
    => LET S == call.spot0.v
           K == contract.strike.v
       IN /\ Returned
          /\ IsNum(outcome.res.value)
          /\ outcome.res.value.v >= 0
          /\ contract.option_type = Str(CALL) => outcome.res.value.v = MaxOf(S - K, 0)
          /\ contract.option_type = Str(PUT) => outcome.res.value.v = MaxOf(K - S, 0)
          /\ (S = K /\ contract.option_type \in VanillaOptionTypes)
               => outcome.res.value.v = 0

\* a Put of strike 2 evaluated at spot 1 pays 1
C1_Witness ==
    /\ After("payoff")
    /\ contract.option_type = Str(PUT)
    /\ contract.strike = Num(2)
    /\ call.spot0 = Num(1)
    /\ Returned /\ outcome.res.value = Num(1)

\* C2: for each adapter, engine() with no explicit model (absent, None or
\* empty), while the catalog has a default for the contract's (underlying
\* class, derivative type, expiry type), constructs the Pricing Engine with
\* exactly that default, the underlying class being the adapter's own tag.
\* (A call that repeats a keyword the adapter passes itself never reaches
\* Instrument.engine: it constructs no engine at all.)
C2_DefaultModelBound ==
    (After("engine") /\ ~Truthy(call.model) /\ HasDefault)
    => /\ NoRepeatedKeyword => Returned
       /\ Returned => /\ outcome.res.value.model = TheDefault
                      /\ outcome.res.value.instrument = contract
                      /\ contract.undl = Str(TagOf(contract.cls))

\* an American futures option bound with model=None gets the catalog's Binomial
C2_Witness ==
    /\ After("engine")
    /\ contract.cls = "FutOption"
    /\ contract.expiry_type = Str(AMERICAN)
    /\ call.model = None
    /\ Returned /\ outcome.res.value.model = Str("Binomial")

C4_EnumMembersOnly ==
    /\ contract # NoContract
         => /\ contract.option_type \in VanillaOptionTypes
            /\ contract.expiry_type \in ExpiryTypeMembers
    /\ (/\ After("init")
        /\ \/ call.option_type \notin VanillaOptionTypes
           \/ call.expiry_type \notin ExpiryTypeMembers)
         => ~Returned
    /\ (After("payoff") /\ contract.option_type \notin VanillaOptionTypes)
         => ~Returned

\* C5: payoff(spot0) with a spot that is missing, non-numeric or negative
\* fails with the invalid-market-value error; it never returns a payoff.
C5_BadSpotRejected ==
    (After("payoff") /\ (~IsNum(call.spot0) \/ call.spot0.v < 0))
    => Raised(InvalidMarketValueErrors)

\* x is a string of exactly 8 digits YYYYMMDD naming a calendar date
IsYYYYMMDD(x) ==
    /\ IsStr(x)
    /\ Len(x.v) = 8
    /\ \A i \in 1..8 : x.v[i] \in Digits
    /\ ToInt(x.v, 1, 4) >= 1
    /\ ToInt(x.v, 5, 2) \in 1..12
    /\ ToInt(x.v, 7, 2) \in 1..DaysInMonth(ToInt(x.v, 1, 4), ToInt(x.v, 5, 2))

\* C6: construction succeeds only when expiry_date is exactly 8 digits
\* YYYYMMDD naming a real date, which it then holds; every other value, an
\* omitted one included, fails construction with the malformed-date error.
C6_ExactlyEightDigits ==
    After("init")
    => /\ Returned <=> IsYYYYMMDD(call.expiry_date)
       /\ Returned => contract.expiry_date =
                        [year |-> ToInt(call.expiry_date.v, 1, 4),
                         month |-> ToInt(call.expiry_date.v, 5, 2),
                         day |-> ToInt(call.expiry_date.v, 7, 2)]
       /\ ~Returned => Raised(MalformedDateErrors)

\* C7: every parameter bag FutOption.engine hands to the Pricing Engine has
\* rf_rate = cnv_yield = the supplied risk-free rate and spot0 = the supplied
\* forward quote, whatever extra keywords the caller supplies; the extra
\* keywords it forwards arrive unmodified.
C7_FuturesCarryIsRate ==
    (After("engine") /\ contract.cls = "FutOption" /\ Returned)
    => LET bag == outcome.res.value.params
       IN /\ bag["rf_rate"] = call.rf_rate
          /\ bag["cnv_yield"] = call.rf_rate
          /\ bag["spot0"] = call.fwd0
          /\ \A k \in DOMAIN call.kwargs : bag[k] = call.kwargs[k]

\* a futures option bound at a rate of 5 with a forwarded no_of_steps
C7_Witness ==
    /\ After("engine")
    /\ contract.cls = "FutOption"
    /\ call.rf_rate = Num(5)
    /\ call.kwargs = Knob
    /\ Returned
    /\ outcome.res.value.params["cnv_yield"] = Num(5)
    /\ outcome.res.value.params["no_of_steps"] = Num(100)

\* C8: in the bag FXOption.engine hands to the Pricing Engine, cnv_yield is
\* the supplied foreign rate and rf_rate the supplied local rate; the same
\* call with any other local rate produces the same cnv_yield.
C8_FXCarryIsForeign ==
    (After("engine") /\ contract.cls = "FXOption" /\ Returned)
    => LET bag == outcome.res.value.params
       IN /\ bag["cnv_yield"] = call.rf_rate_foreign
          /\ bag["rf_rate"] = call.rf_rate_local
          /\ \A other \in Rates :
                LET again == FXOption_engine(contract, call.model, call.spot0, other,
                                             call.rf_rate_foreign, call.volatility,
                                             call.pricing_date, call.kwargs)
                IN /\ again.res.ok
                   /\ again.res.value.params["cnv_yield"] = bag["cnv_yield"]

\* an FX option bound with local rate 0 and foreign rate 5
C8_Witness ==
    /\ After("engine")
    /\ contract.cls = "FXOption"
    /\ call.rf_rate_local = Num(0)
    /\ call.rf_rate_foreign = Num(5)
    /\ Returned
    /\ outcome.res.value.params["cnv_yield"] = Num(5)

\* C9: engine() with a non-empty model constructs the Pricing Engine with
\* exactly that identifier; no catalog is consulted, so the call never fails
\* with the no-default error, whether or not the catalog has an entry.
C9_ExplicitModelVerbatim ==
    (After("engine") /\ Truthy(call.model))
    => /\ outcome.reads = {}
       /\ ~Raised(NoDefaultModelErrors)
       /\ NoRepeatedKeyword => Returned
       /\ Returned => outcome.res.value.model = call.model

\* an unlisted model bound on a contract for which the catalog has no entry
C9_Witness ==
    /\ After("engine")
    /\ call.model = Str("Bogus")
    /\ ~HasDefault
    /\ Returned
    /\ outcome.res.value.model = Str("Bogus")

\* C10: once constructed, no payoff, engine or list_models call, returning
\* or raising, changes a field of the contract or the catalogs; a default
\* resolved by engine() is not kept, so every engine() call without a model
\* that reaches Instrument.engine reads the default from the catalog again.
C10_Frame ==
    [][/\ contract # NoContract => contract' = contract
       /\ DEFAULT_MODEL' = DEFAULT_MODEL
       /\ OBJECT_MODEL' = OBJECT_MODEL
       /\ (After("engine") /\ ~Truthy(call.model) /\ NoRepeatedKeyword)'
            => "DEFAULT_MODEL" \in outcome'.reads]_vars

\* the second query on a contract is an engine() call without a model that
\* resolves the default
C10_Witness ==
    /\ calls = 2
    /\ After("engine")
    /\ call.model = None
    /\ Returned
    /\ "DEFAULT_MODEL" \in outcome.reads
    /\ outcome.res.value.instrument = contract

====
